---- MODULE Spec2Model ----
(***************************************************************************)
(* Eventum's generation pipeline (eventum/core/subprocesses.py): the input *)
(* stage, the event stage and the output stage, coupled by two bounded     *)
(* FIFO queues, a shared processed-events counter and one done latch per   *)
(* stage.  Steps are taken at the suspension points of the code: queue     *)
(* get/put, a batcher add or flush, a plugin call, the delivery of SIGINT. *)
(* The Batcher (eventum/core/batcher.py) and the queue capacity chosen by  *)
(* the supervisor are not part of the sources at hand; they follow the     *)
(* specification's section 4.1 and section 5.                              *)
(***************************************************************************)
EXTENDS Integers, Sequences, FiniteSets, TLC

\* ------------------------------------------------------------------ bounds
\* Largest number of timestamps the input plugin emits in a run.
MaxTs == 2
\* Largest number of events one render call returns.
MaxRender == 2
\* settings.EVENTS_BATCH_SIZE and settings.OUTPUT_BATCH_SIZE (tunable).
EVENTS_BATCH_SIZE == 2
OUTPUT_BATCH_SIZE == 2
\* Capacity, in messages, of each bounded inter-stage queue.
QueueCap == 1
\* Number of entries of the output configuration.
NumPlugins == 2
\* The id counter of the configurator list grows without limit; add is not
\* taken once it has passed this value.
MaxIdCounter == 7

Stages == {"input", "event", "output"}
Plugins == 1..NumPlugins
TimeModes == {"LIVE", "SAMPLE"}

VARIABLES
    pc,         \* per stage: where its control is
    isDone,     \* per stage: the is_done latch
    code,       \* per stage: the exit code passed to exit()
    err,        \* per stage: the exception that made it fail, or "none"
    sig,        \* per stage: SIGINT was delivered
    timeMode,   \* the time_mode argument of the input stage
    inNext,     \* the next timestamp the input plugin will emit
    inBatch,    \* the input batcher's current batch
    q1,         \* the input->event queue
    q2,         \* the event->output queue
    evTs,       \* timestamps of the dequeued batch not yet rendered
    evPending,  \* events of the current render not yet added
    evBatch,    \* the event batcher's current batch
    nRendered,  \* number of events render has returned so far
    tsBatches,  \* history: the timestamp batches the event stage dequeued
    plug,       \* per output plugin: "new", "open" or "closed"
    outCur,     \* the event batch the output stage is writing
    wst,        \* per output plugin: state of its write_batch for outCur
    count,      \* per output plugin: the local count of its write_batch
    processed,  \* the shared processed_events value
    sent,       \* history: sentinels put on each queue
    log1,       \* history: timestamps put on q1, flattened
    log2,       \* history: events put on q2, flattened
    deqLens,    \* history: lengths of the batches the output stage dequeued
    nWritten,   \* history: per plugin, number of batches whose write returned
    invoked,    \* history: per plugin, the calls of write and write_many
    short,      \* history: some write returned fewer events than its batch holds
    time_pattern_id_counter,  \* ConfiguratorList: the id the next add gives
    time_patterns_counter,    \* ConfiguratorList: its count of listed patterns
    time_pattern_ids,         \* ConfiguratorList: the listed ids, in order
    available_colors,         \* ConfiguratorList: colors not given to a pattern
    given_colors,             \* ConfiguratorList: listed id -> its color
    raised,                   \* the exception the last list operation raised
    given_ids                 \* history: every id add has ever given

stageVars == <<pc, isDone, code, err, sig>>
inVars == <<timeMode, inNext, inBatch>>
evVars == <<evTs, evPending, evBatch, nRendered, tsBatches>>
outVars == <<plug, outCur, wst, count, processed, deqLens, nWritten, invoked, short>>
q1Vars == <<q1, log1>>
q2Vars == <<q2, log2>>
listVars == <<time_pattern_id_counter, time_patterns_counter, time_pattern_ids,
              available_colors, given_colors, raised, given_ids>>
vars == <<stageVars, inVars, evVars, outVars, q1Vars, q2Vars, sent, listVars>>
pipelineVars == <<stageVars, inVars, evVars, outVars, q1Vars, q2Vars, sent>>

\* --------------------------------------------------------------- messages
\* A queue message is a batch or the sentinel (None in the code).
Sentinel == [kind |-> "sentinel", items |-> <<>>]
BatchMsg(items) == [kind |-> "batch", items |-> items]

\* Queue.put blocks while the bounded queue is full.
CanPut(q) == Len(q) < QueueCap

\* ---------------------------------------------------------------- Batcher
\* add(item): append to the current batch.
BatcherAdd(batch, item) == Append(batch, item)
\* add flushes at once when the batch has reached size.
BatcherFull(batch, size) == Len(batch) >= size
\* flush(): callback(batch) when the batch is non-empty, else nothing.
BatcherFlush(batch) == IF batch = <<>> THEN <<>> ELSE <<BatchMsg(batch)>>
\* flush() can complete: nothing to put, or room in the queue.
BatcherCanFlush(batch, q) == batch = <<>> \/ CanPut(q)

\* The size each stage gives its Batcher.
InputBatcherSize == EVENTS_BATCH_SIZE
\* (variant with a bug: the event stage asks for one element more)
EventBatcherSizeWrong == OUTPUT_BATCH_SIZE + 1
EventBatcherSize == OUTPUT_BATCH_SIZE

\* ------------------------------------------------------------ termination
\* exit(1) on every failure path, exit(0) on the normal one and on SIGINT.
FailCode == 1
\* (variant with a bug: the normal path exits with the failure code too)
OkCodeIsFailCode == FailCode
OkCode == 0

\* Whether the call _terminate_subprocess(is_done, c, ...) of stage s passes
\* a signal_queue: every call of the input and of the event stage passes the
\* outbound queue, the calls of the output stage pass none.
\* (variants with a bug: the event stage's final call passes no queue; the
\* calls of the failure handlers pass no queue)
SignalQueueGivenNotAtEnd(s, c) == s = "input" \/ (s = "event" /\ c = FailCode)
SignalQueueGivenNotOnFailure(s, c) == s \in {"input", "event"} /\ c = OkCode
SignalQueueGiven(s, c) == s \in {"input", "event"}

\* The call _terminate_subprocess(is_done, c, queue) by stage s.
Terminate(s, c) ==
    /\ pc' = [pc EXCEPT ![s] = IF SignalQueueGiven(s, c) THEN "term_put" ELSE "term_set"]
    /\ code' = [code EXCEPT ![s] = c]

\* signal_queue.put(None)
TermPut(s) ==
    /\ pc[s] = "term_put"
    /\ \/ /\ s = "input"
          /\ CanPut(q1)
          /\ q1' = Append(q1, Sentinel)
          /\ UNCHANGED q2
       \/ /\ s = "event"
          /\ CanPut(q2)
          /\ q2' = Append(q2, Sentinel)
          /\ UNCHANGED q1
    /\ sent' = [sent EXCEPT ![s] = @ + 1]
    /\ pc' = [pc EXCEPT ![s] = "term_set"]
    /\ UNCHANGED <<isDone, code, err, sig, inVars, listVars, evVars, outVars, log1, log2>>

\* is_done.set(); exit(exit_code)
\* (variant with a bug: they also run when the put has not been made)
TermSetWithoutPut(s) ==
    /\ pc[s] \in {"term_put", "term_set"}
    /\ isDone' = [isDone EXCEPT ![s] = TRUE]
    /\ pc' = [pc EXCEPT ![s] = "exited"]
    /\ UNCHANGED <<code, err, sig, inVars, listVars, evVars, outVars, q1Vars, q2Vars, sent>>
TermSet(s) ==
    /\ pc[s] = "term_set"
    /\ isDone' = [isDone EXCEPT ![s] = TRUE]
    /\ pc' = [pc EXCEPT ![s] = "exited"]
    /\ UNCHANGED <<code, err, sig, inVars, listVars, evVars, outVars, q1Vars, q2Vars, sent>>

\* ------------------------------------------------------------ input stage
\* import_module, load_plugin and create_from_config succeed; the Batcher
\* scope is entered and the plugin is driven in the requested mode.
InputInitOk ==
    /\ pc["input"] = "start"
    /\ pc' = [pc EXCEPT !["input"] = "run"]
    /\ UNCHANGED <<isDone, code, err, sig, inVars, listVars, evVars, outVars, q1Vars, q2Vars, sent>>

\* One of them raises (ImportError, ContentReadError,
\* InputPluginConfigurationError or any other Exception): each handler logs
\* and terminates with code 1.
InputInitFail ==
    /\ pc["input"] = "start"
    /\ err' = [err EXCEPT !["input"] = "startup"]
    /\ Terminate("input", FailCode)
    /\ UNCHANGED <<isDone, sig, inVars, listVars, evVars, outVars, q1Vars, q2Vars, sent>>

\* The plugin emits its next timestamp: on_event = batcher.add.
InputEmit ==
    /\ pc["input"] = "run"
    /\ inNext <= MaxTs
    /\ ~BatcherFull(inBatch, InputBatcherSize)
    /\ inBatch' = BatcherAdd(inBatch, inNext)
    /\ inNext' = inNext + 1
    /\ UNCHANGED <<stageVars, timeMode, listVars, evVars, outVars, q1Vars, q2Vars, sent>>

\* The flush add makes when the batch has reached size: callback = queue.put.
InputSizeFlush ==
    /\ pc["input"] = "run"
    /\ BatcherFull(inBatch, InputBatcherSize)
    /\ CanPut(q1)
    /\ q1' = q1 \o BatcherFlush(inBatch)
    /\ log1' = log1 \o inBatch
    /\ inBatch' = <<>>
    /\ UNCHANGED <<stageVars, timeMode, listVars, inNext, evVars, outVars, q2Vars, sent>>

\* The Batcher's timer flushes a non-empty batch that has aged.
InputTimerFlush ==
    /\ pc["input"] = "run"
    /\ inBatch # <<>>
    /\ ~BatcherFull(inBatch, InputBatcherSize)
    /\ CanPut(q1)
    /\ q1' = q1 \o BatcherFlush(inBatch)
    /\ log1' = log1 \o inBatch
    /\ inBatch' = <<>>
    /\ UNCHANGED <<stageVars, timeMode, listVars, inNext, evVars, outVars, q2Vars, sent>>

\* The plugin raises inside the Batcher scope (AttributeError for an
\* unsupported mode, InputPluginRuntimeError, any other Exception): the
\* scope is left before the handler runs.
InputRunFail ==
    /\ pc["input"] = "run"
    /\ ~BatcherFull(inBatch, InputBatcherSize)
    /\ err' = [err EXCEPT !["input"] = "runtime"]
    /\ pc' = [pc EXCEPT !["input"] = "scope_exit"]
    /\ UNCHANGED <<isDone, code, sig, inVars, listVars, evVars, outVars, q1Vars, q2Vars, sent>>

\* The with-block is left: normally, when input_plugin.sample returns (the
\* sample is exhausted; live never returns), or by the plugin's exception.
InputLeavesScope ==
    \/ pc["input"] = "scope_exit"
    \/ /\ pc["input"] = "run"
       /\ timeMode = "SAMPLE"
       /\ ~BatcherFull(inBatch, InputBatcherSize)

\* Leaving the with-block: the Batcher's final flush, then
\* _terminate_subprocess with 1 from a handler or with 0 at the end.
\* (variant with a bug: the batcher is not used as a scope, so nothing
\* flushes what it holds at the end)
InputScopeExitNoFlush ==
    /\ InputLeavesScope
    /\ inBatch' = <<>>
    /\ Terminate("input", IF err["input"] = "none" THEN OkCode ELSE FailCode)
    /\ UNCHANGED <<isDone, err, sig, timeMode, listVars, inNext, evVars, outVars, q1Vars, q2Vars, sent>>
InputScopeExit ==
    /\ InputLeavesScope
    /\ BatcherCanFlush(inBatch, q1)
    /\ q1' = q1 \o BatcherFlush(inBatch)
    /\ log1' = log1 \o inBatch
    /\ inBatch' = <<>>
    /\ Terminate("input", IF err["input"] = "none" THEN OkCode ELSE FailCode)
    /\ UNCHANGED <<isDone, err, sig, timeMode, listVars, inNext, evVars, outVars, q2Vars, sent>>

\* ------------------------------------------------------------ event stage
\* JinjaEventPlugin(config) succeeds: the stage enters its loop.
EventInitOk ==
    /\ pc["event"] = "start"
    /\ pc' = [pc EXCEPT !["event"] = "get"]
    /\ UNCHANGED <<isDone, code, err, sig, inVars, listVars, evVars, outVars, q1Vars, q2Vars, sent>>

\* It raises (EventPluginConfigurationError or any other Exception): each
\* handler logs and terminates with code 1.
EventInitFail ==
    /\ pc["event"] = "start"
    /\ err' = [err EXCEPT !["event"] = "startup"]
    /\ Terminate("event", FailCode)
    /\ UNCHANGED <<isDone, sig, inVars, listVars, evVars, outVars, q1Vars, q2Vars, sent>>

\* timestamps_batch = input_queue.get(): on None leave the loop and
\* terminate with 0, else enter a new Batcher scope for the batch.
EventGet ==
    /\ pc["event"] = "get"
    /\ q1 # <<>>
    /\ q1' = Tail(q1)
    /\ IF Head(q1).kind = "sentinel"
         THEN /\ Terminate("event", OkCode)
              /\ UNCHANGED <<evTs, tsBatches>>
         ELSE /\ pc' = [pc EXCEPT !["event"] = "render"]
              /\ evTs' = Head(q1).items
              /\ tsBatches' = Append(tsBatches, Head(q1).items)
              /\ UNCHANGED code
    /\ UNCHANGED <<isDone, err, sig, inVars, listVars, evPending, evBatch, nRendered,
                   outVars, log1, q2Vars, sent>>

\* for timestamp in timestamps_batch: the timestamp the loop takes next.
\* (variant with a bug: the loop takes the last timestamp first)
NextTimestampLast(ts) == ts[Len(ts)]
NextTimestamp(ts) == Head(ts)
RestTimestamps(ts) == Tail(ts)

\* The events render returns for a timestamp: n of them, in order.
Rendered(t, n) == [k \in 1..n |-> <<t, k>>]

\* event_plugin.render(timestamp=timestamp) returns n events.
EventRender ==
    /\ pc["event"] = "render"
    /\ evTs # <<>>
    /\ evPending = <<>>
    /\ ~BatcherFull(evBatch, EventBatcherSize)
    /\ \E n \in 0..MaxRender :
         /\ evPending' = Rendered(NextTimestamp(evTs), n)
         /\ nRendered' = nRendered + n
    /\ evTs' = RestTimestamps(evTs)
    /\ UNCHANGED <<stageVars, inVars, listVars, evBatch, tsBatches, outVars, q1Vars, q2Vars, sent>>

\* batcher.add(event) for the next event of the render.
EventAdd ==
    /\ pc["event"] = "render"
    /\ evPending # <<>>
    /\ ~BatcherFull(evBatch, EventBatcherSize)
    /\ evBatch' = BatcherAdd(evBatch, Head(evPending))
    /\ evPending' = Tail(evPending)
    /\ UNCHANGED <<stageVars, inVars, listVars, evTs, nRendered, tsBatches, outVars, q1Vars, q2Vars, sent>>

\* The flush add makes when the batch has reached size: callback =
\* event_queue.put.
EventSizeFlush ==
    /\ pc["event"] = "render"
    /\ BatcherFull(evBatch, EventBatcherSize)
    /\ CanPut(q2)
    /\ q2' = q2 \o BatcherFlush(evBatch)
    /\ log2' = log2 \o evBatch
    /\ evBatch' = <<>>
    /\ UNCHANGED <<stageVars, inVars, listVars, evTs, evPending, nRendered, tsBatches, outVars, q1Vars, sent>>

\* The Batcher's timer flushes a non-empty batch that has aged.
EventTimerFlush ==
    /\ pc["event"] = "render"
    /\ evBatch # <<>>
    /\ ~BatcherFull(evBatch, EventBatcherSize)
    /\ CanPut(q2)
    /\ q2' = q2 \o BatcherFlush(evBatch)
    /\ log2' = log2 \o evBatch
    /\ evBatch' = <<>>
    /\ UNCHANGED <<stageVars, inVars, listVars, evTs, evPending, nRendered, tsBatches, outVars, q1Vars, sent>>

\* render raises (EventPluginRuntimeError or any other Exception): the
\* Batcher scope is left before the handler runs.
EventRenderFail ==
    /\ pc["event"] = "render"
    /\ evTs # <<>>
    /\ evPending = <<>>
    /\ ~BatcherFull(evBatch, EventBatcherSize)
    /\ err' = [err EXCEPT !["event"] = "runtime"]
    /\ pc' = [pc EXCEPT !["event"] = "scope_exit"]
    /\ evTs' = <<>>
    /\ UNCHANGED <<isDone, code, sig, inVars, listVars, evPending, evBatch, nRendered, tsBatches,
                   outVars, q1Vars, q2Vars, sent>>

\* The with-block is left: normally, after the last timestamp of the batch
\* is rendered and added, or by the exception of render.
EventLeavesScope ==
    \/ pc["event"] = "scope_exit"
    \/ /\ pc["event"] = "render"
       /\ evTs = <<>>
       /\ evPending = <<>>
       /\ ~BatcherFull(evBatch, EventBatcherSize)

\* Leaving the with-block: the Batcher's final flush; then the handler
\* terminates with 1, or the loop goes on to the next get.
\* (variant with a bug: one Batcher around the whole loop, so the end of a
\* timestamp batch flushes nothing and the loop goes on to the next get)
EventScopeExitKeepsBatch ==
    /\ EventLeavesScope
    /\ IF err["event"] = "none"
         THEN /\ pc' = [pc EXCEPT !["event"] = "get"]
              /\ UNCHANGED <<code, evBatch, q2Vars>>
         ELSE /\ BatcherCanFlush(evBatch, q2)
              /\ q2' = q2 \o BatcherFlush(evBatch)
              /\ log2' = log2 \o evBatch
              /\ evBatch' = <<>>
              /\ Terminate("event", FailCode)
    /\ UNCHANGED <<isDone, err, sig, inVars, listVars, evTs, evPending, nRendered, tsBatches,
                   outVars, q1Vars, sent>>
EventScopeExit ==
    /\ EventLeavesScope
    /\ BatcherCanFlush(evBatch, q2)
    /\ q2' = q2 \o BatcherFlush(evBatch)
    /\ log2' = log2 \o evBatch
    /\ evBatch' = <<>>
    /\ IF err["event"] = "none"
         THEN /\ pc' = [pc EXCEPT !["event"] = "get"]
              /\ UNCHANGED code
         ELSE Terminate("event", FailCode)
    /\ UNCHANGED <<isDone, err, sig, inVars, listVars, evTs, evPending, nRendered, tsBatches,
                   outVars, q1Vars, sent>>

\* ----------------------------------------------------------- output stage
\* The local count of write_batch is unbound (-1) until write or write_many
\* has returned a value.
Unbound == -1

\* Every plugin of the configuration is constructed.
OutputInitOk ==
    /\ pc["output"] = "start"
    /\ pc' = [pc EXCEPT !["output"] = "open"]
    /\ UNCHANGED <<isDone, code, err, sig, inVars, listVars, evVars, outVars, q1Vars, q2Vars, sent>>

\* A constructor raises (OutputPluginConfigurationError or any other
\* Exception): _terminate_subprocess(is_done, 1), no queue.
\* (variant with a bug: the handler only logs, the stage goes on to open)
OutputInitFailGoesOn ==
    /\ pc["output"] = "start"
    /\ err' = [err EXCEPT !["output"] = "startup"]
    /\ pc' = [pc EXCEPT !["output"] = "open"]
    /\ UNCHANGED <<isDone, code, sig, inVars, listVars, evVars, outVars, q1Vars, q2Vars, sent>>
OutputInitFail ==
    /\ pc["output"] = "start"
    /\ err' = [err EXCEPT !["output"] = "startup"]
    /\ Terminate("output", FailCode)
    /\ UNCHANGED <<isDone, sig, inVars, listVars, evVars, outVars, q1Vars, q2Vars, sent>>

\* An exception that leaves run_loop leaves asyncio.run and the stage's
\* function: the process dies with exit code 1, nothing else is run.
Uncaught(e) ==
    /\ err' = [err EXCEPT !["output"] = e]
    /\ pc' = [pc EXCEPT !["output"] = "exited"]
    /\ code' = [code EXCEPT !["output"] = FailCode]
    /\ UNCHANGED <<isDone, sig>>

\* await asyncio.gather(plugin.open() ...) returns when the open of every
\* plugin has returned.
\* (variant with a bug: the loop starts as soon as one plugin is open)
GatherOpenedAny(pl) == \E r \in Plugins : pl[r] = "open"
GatherOpened(pl) == \A r \in Plugins : pl[r] = "open"

\* await asyncio.gather(plugin.open() ...): one plugin's open returns; when
\* all have, the loop starts.
OutputOpen(p) ==
    /\ pc["output"] = "open"
    /\ plug[p] = "new"
    /\ plug' = [plug EXCEPT ![p] = "open"]
    /\ pc' = [pc EXCEPT !["output"] =
                IF GatherOpened(plug') THEN "get" ELSE "open"]
    /\ UNCHANGED <<isDone, code, err, sig, inVars, listVars, evVars, outCur, wst, count,
                   processed, deqLens, nWritten, invoked, short, q1Vars, q2Vars, sent>>

\* One plugin's open raises: gather raises into run_loop, which handles
\* nothing.
OutputOpenFail(p) ==
    /\ pc["output"] = "open"
    /\ plug[p] = "new"
    /\ Uncaught("open")
    /\ UNCHANGED <<inVars, listVars, evVars, outVars, q1Vars, q2Vars, sent>>

\* events_batch = queue.get(): on None go on to close the plugins, else
\* start write_batch for every plugin.
OutputGet ==
    /\ pc["output"] = "get"
    /\ q2 # <<>>
    /\ q2' = Tail(q2)
    /\ IF Head(q2).kind = "sentinel"
         THEN /\ pc' = [pc EXCEPT !["output"] = "close"]
              /\ UNCHANGED <<outCur, wst, count, deqLens>>
         ELSE /\ pc' = [pc EXCEPT !["output"] = "write"]
              /\ outCur' = Head(q2).items
              /\ wst' = [p \in Plugins |-> "pending"]
              /\ count' = [p \in Plugins |-> Unbound]
              /\ deqLens' = Append(deqLens, Len(Head(q2).items))
    /\ UNCHANGED <<isDone, code, err, sig, inVars, listVars, evVars, plug, processed,
                   nWritten, invoked, short, q1Vars, log2, sent>>

\* processed_events.value += len(events_batch)
\* (variants with a bug: the count the first plugin returned is added; one
\* is added per batch)
CounterAfterBatchWritten(value, batch, counts) == value + counts[1]
CounterAfterBatchOne(value, batch, counts) == value + 1
CounterAfterBatch(value, batch, counts) == value + Len(batch)

\* The call write_batch makes for a batch: plugin.write(events_batch[0])
\* when the batch holds one event, plugin.write_many(events_batch) when it
\* holds more.
\* (variants with a bug: write_many is called for a batch of one event
\* too; write is called with the first event whatever the batch holds)
WriteCallAlwaysMany(batch) == [path |-> "write_many", events |-> batch]
WriteCallAlwaysSingle(batch) == [path |-> "write", events |-> <<batch[1]>>]
WriteCall(batch) ==
    IF Len(batch) = 1
      THEN [path |-> "write", events |-> <<batch[1]>>]
      ELSE IF Len(batch) > 1
             THEN [path |-> "write_many", events |-> batch]
             ELSE [path |-> "none", events |-> <<>>]

\* write or write_many of plugin p returns c: write_batch compares it with
\* the batch size and returns.  When every write_batch has returned, gather
\* returns and the counter is incremented.
\* What write (n = 1) or write_many (n > 1) may return: everything written,
\* or one event short of it.
WriteCounts(n) == {n - 1, n}

\* await asyncio.gather(write_batch(plugin, events_batch) ...) returns when
\* the write_batch of every plugin has returned.
\* (variant with a bug: the loop goes on as soon as one of them returned)
GatherReturnedAny(w) == \E r \in Plugins : w[r] = "returned"
GatherReturned(w) == \A r \in Plugins : w[r] = "returned"

OutputWrite(p) ==
    /\ pc["output"] = "write"
    /\ wst[p] = "pending"
    /\ nWritten' = [nWritten EXCEPT ![p] = @ + 1]
    /\ invoked' = [invoked EXCEPT ![p] = Append(@, WriteCall(outCur))]
    /\ \E c \in WriteCounts(Len(outCur)) :
         LET cnt == [count EXCEPT ![p] = c]
             w == [wst EXCEPT ![p] = "returned"]
         IN  /\ short' = (short \/ c < Len(outCur))
             /\ IF GatherReturned(w)
                   THEN /\ processed' = CounterAfterBatch(processed, outCur, cnt)
                        /\ wst' = [r \in Plugins |-> "idle"]
                        /\ count' = [r \in Plugins |-> Unbound]
                        /\ outCur' = <<>>
                        /\ pc' = [pc EXCEPT !["output"] = "get"]
                   ELSE /\ wst' = w
                        /\ count' = cnt
                        /\ UNCHANGED <<processed, outCur, pc>>
    /\ UNCHANGED <<isDone, code, err, sig, inVars, listVars, evVars, plug, deqLens,
                   q1Vars, q2Vars, sent>>

\* write or write_many of plugin p raises OutputPluginRuntimeError: the
\* handler logs it, then "count < batch_size" reads the local count, which
\* is unbound, and raises UnboundLocalError, which nothing handles.
OutputWriteRuntimeError(p) ==
    /\ pc["output"] = "write"
    /\ wst[p] = "pending"
    /\ wst' = [wst EXCEPT ![p] = "runtime_error"]
    /\ invoked' = [invoked EXCEPT ![p] = Append(@, WriteCall(outCur))]
    /\ IF count[p] = Unbound
         THEN Uncaught("UnboundLocalError")
         ELSE UNCHANGED stageVars
    /\ UNCHANGED <<inVars, listVars, evVars, plug, outCur, count, processed, deqLens,
                   nWritten, short, q1Vars, q2Vars, sent>>

\* write or write_many of plugin p raises anything else: write_batch does
\* not handle it.
OutputWriteOtherError(p) ==
    /\ pc["output"] = "write"
    /\ wst[p] = "pending"
    /\ wst' = [wst EXCEPT ![p] = "raised"]
    /\ invoked' = [invoked EXCEPT ![p] = Append(@, WriteCall(outCur))]
    /\ Uncaught("write")
    /\ UNCHANGED <<inVars, listVars, evVars, plug, outCur, count, processed, deqLens,
                   nWritten, short, q1Vars, q2Vars, sent>>

\* await asyncio.gather(plugin.close() ...): one plugin's close returns;
\* when all have, run_loop returns and _terminate_subprocess(is_done, 0).
OutputClose(p) ==
    /\ pc["output"] = "close"
    /\ plug[p] = "open"
    /\ plug' = [plug EXCEPT ![p] = "closed"]
    /\ IF \A r \in Plugins : plug'[r] = "closed"
         THEN Terminate("output", OkCode)
         ELSE UNCHANGED <<pc, code>>
    /\ UNCHANGED <<isDone, err, sig, inVars, listVars, evVars, outCur, wst, count,
                   processed, deqLens, nWritten, invoked, short, q1Vars, q2Vars, sent>>

\* One plugin's close raises: nothing handles it.
OutputCloseFail(p) ==
    /\ pc["output"] = "close"
    /\ plug[p] = "open"
    /\ Uncaught("close")
    /\ UNCHANGED <<inVars, listVars, evVars, outVars, q1Vars, q2Vars, sent>>

\* ----------------------------------------------------------------- SIGINT
\* The handler the decorator installs: exit(0), raised where the stage is.
\* Inside a Batcher scope the scope's exit still runs its final flush; a put
\* the signal interrupted is either retried by that flush or given up.
InScope(s) == pc[s] \in {"run", "render", "scope_exit"}

SigintInput ==
    /\ pc["input"] \notin {"exited", "sigflush"}
    /\ sig' = [sig EXCEPT !["input"] = TRUE]
    /\ code' = [code EXCEPT !["input"] = OkCode]
    /\ IF InScope("input")
         THEN /\ pc' = [pc EXCEPT !["input"] = "sigflush"]
              /\ \/ UNCHANGED inBatch
                 \/ /\ \/ BatcherFull(inBatch, InputBatcherSize)
                       \/ pc["input"] = "scope_exit" /\ inBatch # <<>>
                    /\ inBatch' = <<>>
         ELSE /\ pc' = [pc EXCEPT !["input"] = "exited"]
              /\ UNCHANGED inBatch
    /\ UNCHANGED <<isDone, err, timeMode, listVars, inNext, evVars, outVars, q1Vars, q2Vars, sent>>

SigintEvent ==
    /\ pc["event"] \notin {"exited", "sigflush"}
    /\ sig' = [sig EXCEPT !["event"] = TRUE]
    /\ code' = [code EXCEPT !["event"] = OkCode]
    /\ IF InScope("event")
         THEN /\ pc' = [pc EXCEPT !["event"] = "sigflush"]
              /\ \/ UNCHANGED evBatch
                 \/ /\ \/ BatcherFull(evBatch, EventBatcherSize)
                       \/ pc["event"] = "scope_exit" /\ evBatch # <<>>
                    /\ evBatch' = <<>>
         ELSE /\ pc' = [pc EXCEPT !["event"] = "exited"]
              /\ UNCHANGED evBatch
    /\ evTs' = <<>>
    /\ evPending' = <<>>
    /\ UNCHANGED <<isDone, err, inVars, listVars, nRendered, tsBatches, outVars, q1Vars, q2Vars, sent>>

SigintOutput ==
    /\ pc["output"] # "exited"
    /\ sig' = [sig EXCEPT !["output"] = TRUE]
    /\ code' = [code EXCEPT !["output"] = OkCode]
    /\ pc' = [pc EXCEPT !["output"] = "exited"]
    /\ outCur' = <<>>
    /\ wst' = [p \in Plugins |-> "idle"]
    /\ count' = [p \in Plugins |-> Unbound]
    /\ UNCHANGED <<isDone, err, inVars, listVars, evVars, plug, processed, deqLens,
                   nWritten, invoked, short, q1Vars, q2Vars, sent>>

\* The final flush of the scope SIGINT was delivered in, then the exit.
InputSigFlush ==
    /\ pc["input"] = "sigflush"
    /\ BatcherCanFlush(inBatch, q1)
    /\ q1' = q1 \o BatcherFlush(inBatch)
    /\ log1' = log1 \o inBatch
    /\ inBatch' = <<>>
    /\ pc' = [pc EXCEPT !["input"] = "exited"]
    /\ UNCHANGED <<isDone, code, err, sig, timeMode, listVars, inNext, evVars, outVars, q2Vars, sent>>

EventSigFlush ==
    /\ pc["event"] = "sigflush"
    /\ BatcherCanFlush(evBatch, q2)
    /\ q2' = q2 \o BatcherFlush(evBatch)
    /\ log2' = log2 \o evBatch
    /\ evBatch' = <<>>
    /\ pc' = [pc EXCEPT !["event"] = "exited"]
    /\ UNCHANGED <<isDone, code, err, sig, inVars, listVars, evTs, evPending, nRendered, tsBatches,
                   outVars, q1Vars, sent>>

\* ---------------------------------------------------------------------------
\* ConfiguratorList (studio/components/time_pattern/configurator_list.py): the
\* list of time pattern configurators kept in the session state of the studio.
\* It shares nothing with the pipeline; the pipeline never touches listVars.

\* _TIME_PATTERN_COLORS, a tuple
TIME_PATTERN_COLORS == <<"blue", "green", "orange", "red", "violet">>

\* _MAX_LIST_SIZE
MAX_LIST_SIZE == 5

\* set(seq), and list membership
Range(f) == {f[i] : i \in DOMAIN f}

\* _check_time_pattern_colors: the constructor raises ValueError unless there
\* are at least _MAX_LIST_SIZE unique colors
CheckTimePatternColors ==
    Cardinality(Range(TIME_PATTERN_COLORS)) >= MAX_LIST_SIZE

\* dict()
EmptyDict == [k \in {} |-> "none"]

\* _init_state (loaded_timepattern_filenames is no part of the list state that
\* add and delete keep consistent, and is left out)
InitState ==
    /\ time_pattern_id_counter = 1
    /\ time_patterns_counter = 0
    /\ time_pattern_ids = <<>>
    /\ available_colors = Range(TIME_PATTERN_COLORS)
    /\ given_colors = EmptyDict

\* list.remove(x): drops the first occurrence of x
RECURSIVE Remove(_, _)
Remove(list, x) ==
    IF list = <<>> THEN <<>>
    ELSE IF Head(list) = x THEN Tail(list)
    ELSE <<Head(list)>> \o Remove(Tail(list), x)

\* given_colors[id] = color
SetItem(dict, key, value) ==
    [k \in DOMAIN dict \cup {key} |-> IF k = key THEN value ELSE dict[k]]

\* dict.pop(key), the dictionary that is left
DelItem(dict, key) == [k \in DOMAIN dict \ {key} |-> dict[k]]

\* add(): raises ValueError at the maximum before it touches anything;
\* otherwise takes the id from the id counter, appends it, increments both
\* counters, pops a color (set.pop() gives an arbitrary element, KeyError on
\* an empty set, after the list and the counters were already changed) and
\* records it for the id.  load_time_pattern() changes the list by this
\* same call.
add ==
    /\ \/ /\ time_patterns_counter = MAX_LIST_SIZE
          /\ raised' = "ValueError"
          /\ UNCHANGED <<time_pattern_id_counter, time_patterns_counter,
                         time_pattern_ids, available_colors, given_colors,
                         given_ids>>
       \/ /\ time_patterns_counter # MAX_LIST_SIZE
          /\ time_pattern_id_counter <= MaxIdCounter
          /\ LET id == time_pattern_id_counter IN
                /\ time_pattern_ids' = Append(time_pattern_ids, id)
                /\ time_pattern_id_counter' = time_pattern_id_counter + 1
                /\ time_patterns_counter' = time_patterns_counter + 1
                /\ given_ids' = Append(given_ids, id)
                /\ IF available_colors = {}
                   THEN /\ raised' = "KeyError"
                        /\ UNCHANGED <<available_colors, given_colors>>
                   ELSE \E color \in available_colors :
                            /\ available_colors' = available_colors \ {color}
                            /\ given_colors' = SetItem(given_colors, id, color)
                            /\ raised' = "none"
    /\ UNCHANGED pipelineVars

\* delete(id) that forgets to give the color back
deleteKeepingColor(id) ==
    /\ IF id \notin Range(time_pattern_ids)
       THEN /\ raised' = "ValueError"
            /\ UNCHANGED <<time_patterns_counter, time_pattern_ids,
                           available_colors, given_colors>>
       ELSE /\ time_pattern_ids' = Remove(time_pattern_ids, id)
            /\ time_patterns_counter' = time_patterns_counter - 1
            /\ given_colors' = DelItem(given_colors, id)
            /\ raised' = "none"
            /\ UNCHANGED available_colors
    /\ UNCHANGED <<time_pattern_id_counter, given_ids>>
    /\ UNCHANGED pipelineVars

\* delete(id): time_pattern_ids.remove(id) raises ValueError for an id that is
\* not listed, before any field is changed; otherwise the id leaves the list,
\* the counter goes down, and the color popped from given_colors (KeyError for
\* a missing key, after the list and the counter were changed) goes back to
\* available_colors.  The Configurator calls before it touch no field of the list.
delete(id) ==
    /\ IF id \notin Range(time_pattern_ids)
       THEN /\ raised' = "ValueError"
            /\ UNCHANGED <<time_patterns_counter, time_pattern_ids,
                           available_colors, given_colors>>
       ELSE /\ time_pattern_ids' = Remove(time_pattern_ids, id)
            /\ time_patterns_counter' = time_patterns_counter - 1
            /\ IF id \in DOMAIN given_colors
               THEN /\ available_colors' = available_colors \cup {given_colors[id]}
                    /\ given_colors' = DelItem(given_colors, id)
                    /\ raised' = "none"
               ELSE /\ raised' = "KeyError"
                    /\ UNCHANGED <<available_colors, given_colors>>
    /\ UNCHANGED <<time_pattern_id_counter, given_ids>>
    /\ UNCHANGED pipelineVars

\* The three stages before their first step, and the configurator list after
\* its construction.
Init ==
    /\ pc = [s \in Stages |-> "start"]
    /\ isDone = [s \in Stages |-> FALSE]
    /\ code = [s \in Stages |-> OkCode]
    /\ err = [s \in Stages |-> "none"]
    /\ sig = [s \in Stages |-> FALSE]
    /\ timeMode \in TimeModes
    /\ inNext = 1
    /\ inBatch = <<>>
    /\ q1 = <<>>
    /\ q2 = <<>>
    /\ evTs = <<>>
    /\ evPending = <<>>
    /\ evBatch = <<>>
    /\ nRendered = 0
    /\ tsBatches = <<>>
    /\ plug = [p \in Plugins |-> "new"]
    /\ outCur = <<>>
    /\ wst = [p \in Plugins |-> "idle"]
    /\ count = [p \in Plugins |-> Unbound]
    /\ processed = 0
    /\ sent = [s \in {"input", "event"} |-> 0]
    /\ log1 = <<>>
    /\ log2 = <<>>
    /\ deqLens = <<>>
    /\ nWritten = [p \in Plugins |-> 0]
    /\ invoked = [p \in Plugins |-> <<>>]
    /\ short = FALSE
    /\ CheckTimePatternColors
    /\ InitState
    /\ raised = "none"
    /\ given_ids = <<>>

Next ==
    \/ InputInitOk
    \/ InputInitFail
    \/ InputEmit
    \/ InputSizeFlush
    \/ InputTimerFlush
    \/ InputRunFail
    \/ InputScopeExit
    \/ EventInitOk
    \/ EventInitFail
    \/ EventGet
    \/ EventRender
    \/ EventAdd
    \/ EventSizeFlush
    \/ EventTimerFlush
    \/ EventRenderFail
    \/ EventScopeExit
    \/ OutputInitOk
    \/ OutputInitFail
    \/ \E p \in Plugins : OutputOpen(p)
    \/ \E p \in Plugins : OutputOpenFail(p)
    \/ OutputGet
    \/ \E p \in Plugins : OutputWrite(p)
    \/ \E p \in Plugins : OutputWriteRuntimeError(p)
    \/ \E p \in Plugins : OutputWriteOtherError(p)
    \/ \E p \in Plugins : OutputClose(p)
    \/ \E p \in Plugins : OutputCloseFail(p)
    \/ SigintInput
    \/ SigintEvent
    \/ SigintOutput
    \/ InputSigFlush
    \/ EventSigFlush
    \/ \E s \in {"input", "event"} : TermPut(s)
    \/ \E s \in Stages : TermSet(s)

Spec == Init /\ [][Next]_vars

\* ----------------------------------------------- the pipeline left to itself
\* The steps of each stage's process.  The input and the event stage may
\* fail as the code lets them; the output stage is taken with plugins whose
\* constructor, open, write and close return; no SIGINT is delivered.
InputSteps ==
    \/ InputInitOk
    \/ InputInitFail
    \/ InputEmit
    \/ InputSizeFlush
    \/ InputTimerFlush
    \/ InputRunFail
    \/ InputScopeExit
    \/ TermPut("input")
    \/ TermSet("input")

EventSteps ==
    \/ EventInitOk
    \/ EventInitFail
    \/ EventGet
    \/ EventRender
    \/ EventAdd
    \/ EventSizeFlush
    \/ EventTimerFlush
    \/ EventRenderFail
    \/ EventScopeExit
    \/ TermPut("event")
    \/ TermSet("event")

OutputSteps ==
    \/ OutputInitOk
    \/ \E p \in Plugins : OutputOpen(p)
    \/ OutputGet
    \/ \E p \in Plugins : OutputWrite(p)
    \/ \E p \in Plugins : OutputClose(p)
    \/ TermSet("output")

NextUndisturbed == InputSteps \/ EventSteps \/ OutputSteps

\* Each stage is a process of its own that the operating system keeps
\* running: a stage that can take a step eventually takes one.
LiveSpec ==
    /\ Init
    /\ [][NextUndisturbed]_vars
    /\ WF_vars(InputSteps)
    /\ WF_vars(EventSteps)
    /\ WF_vars(OutputSteps)

\* The session of the studio: any sequence of add and delete calls; the delete
\* buttons give listed ids, a caller may give any id.
ListNext ==
    \/ add
    \/ \E id \in 1..MaxIdCounter : delete(id)

ListSpec == Init /\ [][ListNext]_vars


\* ----------------------------------------------------------------- helpers
Producers == {"input", "event"}
Exited(s) == pc[s] = "exited"
\* The stage has left its Batcher scope for good and called
\* _terminate_subprocess.
Terminating(s) == pc[s] \in {"term_put", "term_set", "exited"}
\* The timestamps the input plugin has passed to batcher.add, in order.
Emitted == [i \in 1..(inNext - 1) |-> i]

RECURSIVE SumSeq(_)
SumSeq(q) == IF q = <<>> THEN 0 ELSE Head(q) + SumSeq(Tail(q))

\* Number of dequeued batches whose write has returned for every plugin.
MinWritten == CHOOSE n \in 0..Len(deqLens) :
                /\ \A p \in Plugins : nWritten[p] >= n
                /\ \/ n = Len(deqLens)
                   \/ \E p \in Plugins : nWritten[p] = n

\* The items of the batches a queue holds, in queue order.
RECURSIVE QueueItems(_)
QueueItems(q) == IF q = <<>> THEN <<>> ELSE Head(q).items \o QueueItems(Tail(q))

\* The events a sequence of write and write_many calls was given, in order.
RECURSIVE CallEvents(_)
CallEvents(calls) ==
    IF calls = <<>> THEN <<>> ELSE Head(calls).events \o CallEvents(Tail(calls))

\* The timestamp batch, by its place in the order of dequeuing, that
\* timestamp t arrived in.
TsBatchOf(t) ==
    CHOOSE k \in 1..Len(tsBatches) :
        \E i \in 1..Len(tsBatches[k]) : tsBatches[k][i] = t
\* All the events were rendered from timestamps of one timestamp batch.
SameTsBatch(events) ==
    \A i, j \in 1..Len(events) :
        TsBatchOf(events[i][1]) = TsBatchOf(events[j][1])

\* Event a was rendered before event b: from an earlier timestamp, or
\* earlier by the same render.
RenderedBefore(a, b) == a[1] < b[1] \/ (a[1] = b[1] /\ a[2] < b[2])

\* ------------------------------------------------------------------ claims

\* C1 (as stated): on each inter-stage queue exactly one sentinel is put
\* over a run, whatever ends the producing stage, SIGINT included: never
\* two, and never zero once the producing stage has exited.
C1_ExactlyOneSentinelAlways ==
    \A s \in Producers : sent[s] <= 1 /\ (Exited(s) => sent[s] = 1)

\* C1 (amended): at most one sentinel is ever put on each inter-stage
\* queue, and exactly one has been put once the producing stage has exited
\* on a path other than the SIGINT handler.
C1_OneSentinelUnlessSigint ==
    \A s \in Producers : sent[s] <= 1 /\ (Exited(s) /\ ~sig[s] => sent[s] = 1)

\* C1 witness: the input stage has exited after a runtime failure and the
\* event stage after the end of the stream, each with its sentinel put.
C1_Witness ==
    /\ Exited("input") /\ err["input"] = "runtime" /\ ~sig["input"]
    /\ Exited("event") /\ err["event"] = "none" /\ ~sig["event"]
    /\ sent["input"] = 1 /\ sent["event"] = 1

\* C2: in a SAMPLE run without any error or signal, once all three stages
\* have terminated the processed-events counter equals the number of
\* events render returned over all emitted timestamps.
C2_CounterEqualsRendered ==
    (/\ timeMode = "SAMPLE"
     /\ \A s \in Stages : Exited(s) /\ err[s] = "none" /\ ~sig[s])
    => processed = nRendered

\* C2 witness: such a run has ended with both timestamps emitted and at
\* least three events counted.
C2_Witness ==
    /\ timeMode = "SAMPLE"
    /\ \A s \in Stages : Exited(s) /\ err[s] = "none" /\ ~sig[s]
    /\ inNext = MaxTs + 1
    /\ processed >= 3

\* C3 (the claim on its failure paths): every stage that has exited on a
\* path other than the SIGINT handler, a failure of an output plugin's
\* open, write or close included, has set its DoneSignal.
C3_DoneSetOnEveryExit ==
    \A s \in Stages : Exited(s) /\ ~sig[s] => isDone[s]

\* C4: an input or event stage that failed, at startup or inside its
\* Batcher scope, and was not interrupted by SIGINT, has flushed what its
\* batcher held when it calls _terminate_subprocess, has put its sentinel
\* once that put has returned, and has exited with its DoneSignal set and a
\* non-zero exit code.
C4_FailureShutdown ==
    /\ (err["input"] # "none" /\ ~sig["input"] /\ Terminating("input"))
         => /\ inBatch = <<>>
            /\ log1 = Emitted
            /\ pc["input"] # "term_put" => sent["input"] = 1
            /\ Exited("input") => isDone["input"] /\ code["input"] # 0
    /\ (err["event"] # "none" /\ ~sig["event"] /\ Terminating("event"))
         => /\ evBatch = <<>>
            /\ Len(log2) = nRendered
            /\ pc["event"] # "term_put" => sent["event"] = 1
            /\ Exited("event") => isDone["event"] /\ code["event"] # 0

\* C4 witness: both stages have failed inside their Batcher scope with
\* items accumulated, and have exited; the items are on the queues' logs.
C4_Witness ==
    /\ Exited("input") /\ err["input"] = "runtime" /\ ~sig["input"]
    /\ Exited("event") /\ err["event"] = "runtime" /\ ~sig["event"]
    /\ Len(log1) = 2
    /\ Len(log2) >= 1

\* C5: a write that raises OutputPluginRuntimeError does not end the output
\* stage: when the stage has exited without SIGINT after such an error, it
\* has counted every batch it dequeued, closed its plugins, set its
\* DoneSignal and exited with code 0.
C5_WriteErrorTolerated ==
    (/\ \E p \in Plugins : wst[p] = "runtime_error"
     /\ Exited("output") /\ ~sig["output"])
    => /\ processed = SumSeq(deqLens)
       /\ \A p \in Plugins : plug[p] = "closed"
       /\ isDone["output"]
       /\ code["output"] = 0

\* C6: when the open of an output plugin has failed, the output stage has
\* dequeued no batch, written nothing, closed every plugin whose open
\* succeeded, and exited with a non-zero code.
C6_OpenFailureClosesOpened ==
    (err["output"] = "open" /\ Exited("output"))
    => /\ deqLens = <<>>
       /\ \A p \in Plugins : nWritten[p] = 0
       /\ \A p \in Plugins : plug[p] # "open"
       /\ code["output"] # 0

\* C7: the processed-events counter always equals the summed lengths of the
\* batches whose write has returned for every output plugin, whatever
\* counts the plugins returned; every change of it is an increase made by
\* the output stage while it writes a batch.
C7_CounterIsIngress ==
    /\ [](processed = SumSeq(SubSeq(deqLens, 1, MinWritten)))
    /\ [][processed' # processed =>
            processed' > processed /\ pc["output"] = "write"]_vars

\* C7 witness: a batch of two events, for which a plugin returned a count
\* below two, has been counted as two.
C7_Witness ==
    /\ short
    /\ deqLens = <<2>>
    /\ pc["output"] = "get"
    /\ processed = 2

\* C8: the events put on the event->output queue, flattened, are in render
\* order: events of an earlier timestamp before those of a later one, and
\* the events of one timestamp in the order render returned them.
C8_RenderOrder ==
    \A i, j \in 1..Len(log2) : i < j => RenderedBefore(log2[i], log2[j])

\* C8 witness: events of both timestamps, two of them from one render, are
\* on the log in more than one batch.
C8_Witness ==
    /\ Len(log2) >= 3
    /\ log2[1][1] = 1
    /\ log2[Len(log2)][1] = 2
    /\ Len(deqLens) + Len(q2) >= 2

\* C9: as long as SIGINT has not been delivered to the input stage, the
\* timestamps put on the input->event queue, followed by those the batcher
\* still holds, are the timestamps passed to add, in order; nothing is left
\* in the batcher once the scope is left.
C9_TimestampsDelivered ==
    ~sig["input"] =>
        /\ log1 \o inBatch = Emitted
        /\ Terminating("input") => inBatch = <<>>

\* C9 witness: the input stage has ended normally with both timestamps put.
C9_Witness ==
    /\ Exited("input") /\ err["input"] = "none" /\ ~sig["input"]
    /\ log1 = <<1, 2>>

\* C10: every batch message on either queue is non-empty and holds at most
\* the configured size of its batcher.
C10_BatchBounds ==
    /\ \A i \in 1..Len(q1) :
         q1[i].kind = "batch" =>
            Len(q1[i].items) \in 1..EVENTS_BATCH_SIZE
    /\ \A i \in 1..Len(q2) :
         q2[i].kind = "batch" =>
            Len(q2[i].items) \in 1..OUTPUT_BATCH_SIZE

\* C10 witness: the event stage has handled a timestamp batch that rendered
\* to no event and is back at get, with nothing put on the event->output
\* queue.
C10_Witness ==
    /\ pc["event"] = "get"
    /\ log1 # <<>>
    /\ q1 = <<>>
    /\ sent["input"] = 0
    /\ nRendered = 0
    /\ q2 = <<>>
    /\ log2 = <<>>

\* C11: with no SIGINT and output plugins that do not fail, once the input
\* stage has failed (at startup or in its run) the event stage eventually
\* exits having put one sentinel and set its DoneSignal, with code 0 unless
\* it failed itself; and once the input or the event stage has failed the
\* output stage eventually exits with the event->output queue drained,
\* every event that was put on it counted, its plugins closed, its
\* DoneSignal set and code 0.
C11_DownstreamTerminates ==
    /\ [](err["input"] # "none" =>
            <>(/\ Exited("event")
               /\ sent["event"] = 1
               /\ isDone["event"]
               /\ err["event"] = "none" => code["event"] = 0))
    /\ []((err["input"] # "none" \/ err["event"] # "none") =>
            <>(/\ Exited("output")
               /\ q2 = <<>>
               /\ SumSeq(deqLens) = Len(log2)
               /\ processed = Len(log2)
               /\ \A p \in Plugins : plug[p] = "closed"
               /\ isDone["output"]
               /\ code["output"] = 0))

\* C11 witness: the input stage failed in its run after a timestamp was
\* put; the event stage (not failing) and the output stage have exited
\* with code 0 after an event was written.
C11_Witness ==
    /\ err["input"] = "runtime" /\ Exited("input")
    /\ log1 # <<>>
    /\ err["event"] = "none" /\ Exited("event") /\ code["event"] = 0
    /\ Exited("output") /\ code["output"] = 0
    /\ processed >= 1

\* C12: a SAMPLE run whose input plugin emitted no timestamp and that ran
\* to its end without error or SIGINT has put no batch on either queue and
\* one sentinel on each, has left the counter at 0, and has ended with all
\* three DoneSignals set and all three exit codes 0.
C12_EmptySample ==
    (/\ timeMode = "SAMPLE"
     /\ inNext = 1
     /\ \A s \in Stages : Exited(s) /\ err[s] = "none" /\ ~sig[s])
    => /\ log1 = <<>> /\ log2 = <<>> /\ deqLens = <<>>
       /\ q1 = <<>> /\ q2 = <<>>
       /\ sent["input"] = 1 /\ sent["event"] = 1
       /\ processed = 0
       /\ \A s \in Stages : isDone[s] /\ code[s] = 0

\* C12 witness: such a run has ended, the output plugins closed.
C12_Witness ==
    /\ timeMode = "SAMPLE"
    /\ inNext = 1
    /\ \A s \in Stages : Exited(s) /\ err[s] = "none" /\ ~sig[s]
    /\ \A p \in Plugins : plug[p] = "closed"

\* C13: a stage to which SIGINT was delivered has code 0 and performs no
\* further blocking queue operation: it is never found, after the signal,
\* holding a batch that it waits to put on a full queue.
C13_SigintNeverBlocks ==
    /\ \A s \in Stages : sig[s] => code[s] = 0
    /\ sig["input"] /\ ~Exited("input") => BatcherCanFlush(inBatch, q1)
    /\ sig["event"] /\ ~Exited("event") => BatcherCanFlush(evBatch, q2)

\* C14 (as stated): once the construction of an output plugin has failed,
\* neither the input stage nor the event stage ever terminates by itself
\* (that is, exits on a path other than the SIGINT handler).
C14_UpstreamNeverTerminates ==
    err["output"] = "startup" =>
        \A s \in Producers : ~(Exited(s) /\ ~sig[s] /\ err[s] = "none")

\* C14 (amended): once the construction of an output plugin has failed the
\* output stage has opened no plugin, dequeued and written nothing and left
\* the counter at 0, and when it has exited (not by SIGINT) its DoneSignal
\* is set and its code is not 0; nothing is ever taken off the
\* event->output queue, which holds every event that was put on it, so a
\* put that finds it full blocks for good; an upstream stage that has
\* exited by itself has put its sentinel, which the queue had room for.
C14_OutputStartupFailure ==
    err["output"] = "startup" =>
        /\ \A p \in Plugins : plug[p] = "new" /\ nWritten[p] = 0
        /\ deqLens = <<>>
        /\ processed = 0
        /\ Exited("output") /\ ~sig["output"] =>
              isDone["output"] /\ code["output"] # 0
        /\ QueueItems(q2) = log2
        /\ Exited("event") /\ ~sig["event"] =>
              q2 # <<>> /\ q2[Len(q2)].kind = "sentinel"

\* C14 witness: the output stage has exited after the failed construction;
\* the event stage, at the end of its Batcher scope, holds events and waits
\* for room in the full event->output queue; the input stage waits to put
\* its sentinel on the full input->event queue.
C14_Witness ==
    /\ err["output"] = "startup" /\ Exited("output") /\ isDone["output"]
    /\ pc["event"] = "render" /\ EventLeavesScope
    /\ evBatch # <<>> /\ ~CanPut(q2)
    /\ pc["input"] = "term_put" /\ ~CanPut(q1)

\* C15: the output stage has at most one batch in flight: every plugin's
\* write has returned for all dequeued batches but possibly the last, and
\* a message is taken off the event->output queue only when the write of
\* every dequeued batch has returned for every plugin and the counter holds
\* the lengths of all of them.
C15_OneBatchInFlight ==
    /\ [](\A p \in Plugins :
            nWritten[p] \in {Len(deqLens) - 1, Len(deqLens)})
    /\ [][Len(q2') < Len(q2) =>
            /\ \A p \in Plugins : nWritten[p] = Len(deqLens)
            /\ processed = SumSeq(deqLens)
            /\ outCur = <<>>]_vars

\* C15 witness: of the second batch dequeued, the write of the last plugin
\* has returned while that of the first is still pending.
C15_Witness ==
    /\ Len(deqLens) = 2
    /\ pc["output"] = "write"
    /\ wst[NumPlugins] = "returned"
    /\ wst[1] = "pending"

\* C16: every output plugin is called with the dequeued batches in the
\* order of the event->output queue: its calls so far were given, batch by
\* batch, the events of the first batches dequeued, which are the first
\* events put on the queue; and when the output stage has ended without
\* error or SIGINT every plugin has been called once for each dequeued
\* batch.
C16_EachPluginEachBatchInOrder ==
    \A p \in Plugins :
        /\ Len(invoked[p]) <= Len(deqLens)
        /\ \A i \in 1..Len(invoked[p]) :
              Len(invoked[p][i].events) = deqLens[i]
        /\ CallEvents(invoked[p]) =
              SubSeq(log2, 1, SumSeq(SubSeq(deqLens, 1, Len(invoked[p]))))
        /\ (Exited("output") /\ err["output"] = "none" /\ ~sig["output"])
              => Len(invoked[p]) = Len(deqLens)

\* C16 witness: a run has ended without error in which two batches, the
\* first of two events, were dequeued and written by every plugin.
C16_Witness ==
    /\ \A s \in Stages : Exited(s) /\ err[s] = "none" /\ ~sig[s]
    /\ Len(deqLens) = 2
    /\ deqLens[1] = 2
    /\ \A p \in Plugins : Len(invoked[p]) = 2

\* C17: a plugin's write or write_many is called only when every plugin's
\* open has returned; a plugin is closed only after the sentinel was taken
\* off the event->output queue; once a plugin is closed no write or
\* write_many is called any more; an output stage that ends without error
\* or SIGINT has closed every plugin; and the output DoneSignal is set only
\* when every plugin is closed (or, after a failed construction, none was
\* ever opened).
C17_OpenWriteCloseDone ==
    /\ []((\E p \in Plugins : invoked[p] # <<>>) =>
            \A p \in Plugins : plug[p] # "new")
    /\ []((\E p \in Plugins : plug[p] = "closed") =>
            sent["event"] = 1 /\ q2 = <<>> /\ outCur = <<>>)
    /\ [][(\E p \in Plugins : plug[p] = "closed") => invoked' = invoked]_vars
    /\ []((Exited("output") /\ err["output"] = "none" /\ ~sig["output"]) =>
            \A p \in Plugins : plug[p] = "closed")
    /\ [](isDone["output"] =>
            \/ \A p \in Plugins : plug[p] = "closed"
            \/ err["output"] = "startup" /\ \A p \in Plugins : plug[p] = "new")

\* C17 witness: the output stage has written a batch with every plugin,
\* closed every plugin and set its DoneSignal.
C17_Witness ==
    /\ isDone["output"] /\ err["output"] = "none"
    /\ \A p \in Plugins : plug[p] = "closed" /\ invoked[p] # <<>>

\* C18: on each inter-stage queue a sentinel is the last message; once the
\* producing stage has put its sentinel its batcher holds nothing and
\* everything it was given has been put before (all emitted timestamps,
\* all rendered events), and no batch is put any more; the producing
\* stage's DoneSignal is set only when its sentinel has been put.
C18_SentinelLastThenDone ==
    /\ [](/\ \A i \in 1..Len(q1) : q1[i].kind = "sentinel" => i = Len(q1)
          /\ \A i \in 1..Len(q2) : q2[i].kind = "sentinel" => i = Len(q2))
    /\ [](sent["input"] = 1 => inBatch = <<>> /\ log1 = Emitted)
    /\ [](sent["event"] = 1 =>
            evBatch = <<>> /\ evPending = <<>> /\ Len(log2) = nRendered)
    /\ [][(sent["input"] = 1 => log1' = log1) /\
          (sent["event"] = 1 => log2' = log2)]_vars
    /\ [](\A s \in Producers : isDone[s] => sent[s] = 1)

\* C18 witness: both producing stages have set their DoneSignal; the event
\* stage put events and then its sentinel, which is still on the queue.
C18_Witness ==
    /\ isDone["input"] /\ isDone["event"]
    /\ ~sig["input"] /\ ~sig["event"]
    /\ log1 # <<>> /\ log2 # <<>>
    /\ q2 # <<>> /\ q2[Len(q2)].kind = "sentinel"

\* C19: every event batch (in the event batcher, on the event->output
\* queue, being written) holds events rendered from timestamps of a single
\* timestamp batch; and when the event stage takes the next timestamp batch
\* off the input->event queue its batcher holds nothing and every event
\* rendered so far has been put on the event->output queue.
C19_ScopePerTimestampBatch ==
    /\ [](/\ SameTsBatch(evBatch)
          /\ SameTsBatch(outCur)
          /\ \A i \in 1..Len(q2) : SameTsBatch(q2[i].items))
    /\ [][tsBatches' # tsBatches =>
            /\ evBatch = <<>> /\ evPending = <<>> /\ evTs = <<>>
            /\ Len(log2) = nRendered]_vars

\* C19 witness: the timestamps arrived in two batches; the only event of
\* the first was put as a batch of its own, short of the batch size, and
\* an event of the second follows it.
C19_Witness ==
    /\ Len(tsBatches) = 2
    /\ Len(log2) >= 2
    /\ log2[1][1] = 1 /\ log2[2][1] = 2
    /\ deqLens # <<>> /\ deqLens[1] = 1

\* C20: for every dequeued batch and every plugin there is at most one
\* call, and the call made for a batch of one event is write, with that
\* event, while the call made for a batch of more events is write_many,
\* with all of them.
C20_WritePathBySize ==
    \A p \in Plugins :
        /\ Len(invoked[p]) <= Len(deqLens)
        /\ \A i \in 1..Len(invoked[p]) :
              /\ deqLens[i] = 1 =>
                    invoked[p][i].path = "write"
              /\ deqLens[i] > 1 =>
                    invoked[p][i].path = "write_many"
              /\ Len(invoked[p][i].events) = deqLens[i]

\* C20 witness: the first plugin was called with write for a batch of one
\* event and then with write_many for a batch of two.
C20_Witness ==
    /\ Len(invoked[1]) = 2
    /\ invoked[1][1].path = "write" /\ deqLens[1] = 1
    /\ invoked[1][2].path = "write_many" /\ deqLens[2] = 2
\* C21: after any sequence of add and delete the counter is the length of the
\* id list and at most MAX_LIST_SIZE; the listed ids are pairwise distinct and
\* no id is given twice; the keys of given_colors are the listed ids, their
\* colors are pairwise distinct, available_colors and the given colors are a
\* partition of the palette, and no pop raised KeyError; at the maximum no step
\* grows the list, and a step that leaves the list as it is (add among them)
\* raised ValueError and changed no field.
Distinct(list) ==
    \A i, j \in DOMAIN list : list[i] = list[j] => i = j

ListStateConsistent ==
    /\ time_patterns_counter = Len(time_pattern_ids)
    /\ time_patterns_counter <= MAX_LIST_SIZE
    /\ Distinct(time_pattern_ids)
    /\ Distinct(given_ids)
    /\ Range(time_pattern_ids) \subseteq Range(given_ids)
    /\ DOMAIN given_colors = Range(time_pattern_ids)
    /\ \A a, b \in DOMAIN given_colors :
            given_colors[a] = given_colors[b] => a = b
    /\ available_colors \cup Range(given_colors) = Range(TIME_PATTERN_COLORS)
    /\ available_colors \cap Range(given_colors) = {}
    /\ raised # "KeyError"

AtMaximumNothingIsAdded ==
    time_patterns_counter = MAX_LIST_SIZE =>
        /\ Len(time_pattern_ids') <= Len(time_pattern_ids)
        /\ time_pattern_ids' = time_pattern_ids =>
               /\ raised' = "ValueError"
               /\ UNCHANGED <<time_pattern_id_counter, time_patterns_counter,
                              available_colors, given_colors, given_ids>>

\* C21: the list state stays consistent and add at the maximum changes nothing
C21_ListConsistent ==
    /\ []ListStateConsistent
    /\ [][AtMaximumNothingIsAdded]_vars

\* the list is full after a delete and a further add, every color is given,
\* and one more add has raised ValueError
C21_Witness ==
    /\ time_patterns_counter = MAX_LIST_SIZE
    /\ Len(given_ids) > MAX_LIST_SIZE
    /\ Range(time_pattern_ids) # Range(given_ids)
    /\ available_colors = {}
    /\ raised = "ValueError"

====
